---- MODULE Spec2Model ----
(***************************************************************************)
(* Model of the inference orchestrator of satellite/output/infer.py and    *)
(* the file-listing loader of satellite/input/loader.py.                   *)
(*                                                                         *)
(* Paths and file names are sequences of one-character strings, so that    *)
(* os.path.join, os.path.basename, os.path.splitext, str.endswith,         *)
(* str.startswith and sorted() are computed as Python computes them.       *)
(***************************************************************************)
EXTENDS Integers, Sequences, FiniteSets, TLC

(***************************************************************************)
(* Bounds                                                                  *)
(***************************************************************************)
\* Largest width / height (in pixels) of a source image.
MaxDim == 3

Dim == 1..MaxDim

\* Width and height of the model's input (input_size_w, input_size_h).
InputSizeW == 2

InputSizeH == 1

\* Number of classes of the model's output.
NumClasses == 2

\* Largest class score of a pixel; the scores stand for probabilities.
MaxProb == 1

(***************************************************************************)
(* Strings                                                                 *)
(***************************************************************************)
\* The characters used, in ASCII order; Ord is the position in this list.
CharOrder == <<".", "/", "0", "1", "2", "3", "4", "5", "6", "7", "8", "9",
               "_", "a", "b", "c", "d", "f", "g", "h", "i", "n", "o", "p",
               "s", "t", "v", "x">>

Ord(c) == CHOOSE i \in 1..Len(CharOrder) : CharOrder[i] = c

\* str.endswith(suffix)
EndsWith(s, suf) ==
    /\ Len(suf) <= Len(s)
    /\ SubSeq(s, Len(s) - Len(suf) + 1, Len(s)) = suf

\* str.endswith(tuple of suffixes)
EndsWithAny(s, sufs) == \E suf \in sufs : EndsWith(s, suf)

\* str.startswith(prefix)
StartsWith(s, pre) ==
    /\ Len(pre) <= Len(s)
    /\ SubSeq(s, 1, Len(pre)) = pre

\* Position of the last occurrence of character c in s, 0 when absent.
LastIndexOf(s, c) ==
    IF \E i \in 1..Len(s) : s[i] = c
    THEN CHOOSE i \in 1..Len(s) : s[i] = c /\ \A j \in (i+1)..Len(s) : s[j] # c
    ELSE 0

\* os.path.basename
Basename(p) == SubSeq(p, LastIndexOf(p, "/") + 1, Len(p))

\* os.path.splitext: <<root, ext>>; leading dots of the last component are
\* not an extension separator.
Splitext(p) ==
    LET sep == LastIndexOf(p, "/")
        dot == LastIndexOf(p, ".")
    IN  IF dot > sep /\ \E i \in (sep+1)..(dot-1) : p[i] # "."
        THEN <<SubSeq(p, 1, dot - 1), SubSeq(p, dot, Len(p))>>
        ELSE <<p, <<>>>>

\* os.path.join(a, b)
Join(a, b) ==
    IF StartsWith(b, <<"/">>) THEN b
    ELSE IF a = <<>> \/ EndsWith(a, <<"/">>) THEN a \o b
    ELSE a \o <<"/">> \o b

\* Python's ordering of str: a < b
RECURSIVE LexLess(_, _)
LexLess(a, b) ==
    IF a = <<>> THEN b # <<>>
    ELSE IF b = <<>> THEN FALSE
    ELSE IF Head(a) = Head(b) THEN LexLess(Tail(a), Tail(b))
    ELSE Ord(Head(a)) < Ord(Head(b))

\* sorted(S) for a collection of distinct strings
RECURSIVE Sorted(_)
Sorted(S) ==
    IF S = {} THEN <<>>
    ELSE LET m == CHOOSE x \in S : \A y \in S \ {x} : LexLess(x, y)
         IN  <<m>> \o Sorted(S \ {m})

\* The decimal digit k (0..9) as a character.
Digit(k) == CharOrder[k + 3]

(***************************************************************************)
(* settings                                                                *)
(***************************************************************************)
GEOGRAPHIC_ACCEPT_EXTENSION == {<<".", "t", "i", "f">>}

NON_GEOGRAPHIC_ACCEPT_EXTENSION == {<<".", "p", "n", "g">>}

PNG == <<".", "p", "n", "g">>

(***************************************************************************)
(* The environment: input directories, their possible entries, scratch     *)
(* and output directories, tile sizes.                                     *)
(***************************************************************************)
\* Names a directory of images may hold: two geographic/bitmap images with
\* the same stem, a second bitmap, a text file and a hidden bitmap.
FileNames == { <<"a", ".", "t", "i", "f">>,
               <<"a", ".", "p", "n", "g">>,
               <<"b", ".", "p", "n", "g">>,
               <<"c", ".", "t", "x", "t">>,
               <<".", "d", ".", "p", "n", "g">> }

\* image_prediction_folder: an absolute and a relative directory path.
InputFolders == { <<"/", "i", "n">>, <<"i", "n">> }

\* <<width_slice, height_slice>>
SliceSizes == { <<2, 2>>, <<2, 3>> }

\* input_size_c: the three colour channels that the comparison with
\* [0, 0, 0] and the assignment of (0, 0, 0, 0) in segment_image require.
InputSizeC == 3

Params(folder, ws, hs) ==
    [ image_prediction_folder |-> folder,
      width_slice             |-> ws,
      height_slice            |-> hs,
      tmp_slices              |-> <<"/", "t", "s">>,
      tmp_slices_predictions  |-> <<"/", "t", "p">>,
      output_prediction       |-> <<"/", "o">>,
      output_prediction_shp   |-> <<"/", "v">>,
      input_size_w            |-> InputSizeW,
      input_size_h            |-> InputSizeH,
      input_size_c            |-> InputSizeC,
      classes                 |-> "classes",
      color_classes           |-> "color_classes" ]

\* The options the pipeline is documented to recognize, among the keys of
\* Params.
RecognizedOptions ==
    { "image_prediction_folder", "width_slice", "height_slice", "tmp_slices",
      "tmp_slices_predictions", "output_prediction", "output_prediction_shp",
      "input_size_w", "input_size_h", "input_size_c", "color_classes" }

\* A configuration cut down to some of its keys.
Restrict(params, keys) == [ key \in keys |-> params[key] ]

\* The value of a variable that holds nothing (Python's None).
None == <<>>

(***************************************************************************)
(* Loader                                                                  *)
(***************************************************************************)
AcceptedEntry_hidden_too(fname) ==
    \/ EndsWithAny(fname, GEOGRAPHIC_ACCEPT_EXTENSION)
    \/ EndsWithAny(fname, NON_GEOGRAPHIC_ACCEPT_EXTENSION)

\* Loader.list_entries: the accepted, non-hidden entries of the directory,
\* joined to the directory, sorted.
AcceptedEntry(fname) ==
    /\ \/ EndsWithAny(fname, GEOGRAPHIC_ACCEPT_EXTENSION)
       \/ EndsWithAny(fname, NON_GEOGRAPHIC_ACCEPT_EXTENSION)
    /\ ~StartsWith(fname, <<".">>)

list_entries(directory, entries) ==
    Sorted({ Join(directory, fname) : fname \in { f \in entries : AcceptedEntry(f) } })

(***************************************************************************)
(* Infer.check_image_format                                                *)
(***************************************************************************)
\* What the call yields for a file that can (readable) or cannot be opened
\* and whose raster is w pixels wide and h pixels high:
\*   kind "pair"  - a (dims, is_geographic_format) pair is returned
\*   kind "none"  - a bare `return`: the value None, not a pair
\*   kind "raise" - cv2.imread gave None and `.shape` raised AttributeError
check_image_format(image_path, readable, w, h) ==
    LET filename == Basename(image_path)
    IN  IF EndsWithAny(filename, GEOGRAPHIC_ACCEPT_EXTENSION)
        THEN IF ~readable
             THEN [kind |-> "none", dims |-> None, geo |-> "None"]
             ELSE [kind |-> "pair", dims |-> <<w, h>>, geo |-> "True"]
        ELSE IF EndsWithAny(filename, NON_GEOGRAPHIC_ACCEPT_EXTENSION)
        THEN IF ~readable
             THEN [kind |-> "raise", dims |-> None, geo |-> "None"]
             ELSE [kind |-> "pair", dims |-> <<h, w, 3>>, geo |-> "False"]
        ELSE [kind |-> "pair", dims |-> None, geo |-> "None"]

(***************************************************************************)
(* Collaborators outside infer.py: the slicer, the merger, the polygonizer *)
(* and the scratch-directory sweep.                                        *)
(***************************************************************************)
CeilDiv(a, b) == (a + b - 1) \div b

\* os.path.dirname
Dirname(p) == SubSeq(p, 1, LastIndexOf(p, "/") - 1)

\* Slicer.slice_geographic / Slicer.slice_bitmap: the tile paths of an image
\* of w x h pixels cut in tiles of tw x th, in row-major order; the k-th
\* tile is <scratch_dir>/<stem>_<k><ext>.
slice(image_path, tw, th, scratch_dir, w, h) ==
    LET parts == Splitext(Basename(image_path))
        n     == CeilDiv(w, tw) * CeilDiv(h, th)
    IN  [ t \in 1..n |-> Join(scratch_dir, parts[1] \o <<"_", Digit(t)>> \o parts[2]) ]

\* Poligonize.polygonize: the vector dataset written for an original image.
vector_path(original_images_path, output_vector_path) ==
    Join(output_vector_path,
         Splitext(Basename(original_images_path))[1] \o <<".", "s", "h", "p">>)

\* Utils.flush_files: what is left of the files fs once every file of the
\* directory is deleted.
flush_files(fs, directory) == { p \in fs : Dirname(p) # directory }

\* The elements of a sequence.
Range(s) == { s[i] : i \in DOMAIN s }

(***************************************************************************)
(* Infer.segment_image: the path the colorized tile is written to.         *)
(***************************************************************************)
segment_image_path_keeps_dir(image_path, network_params) ==
    Join(network_params.tmp_slices_predictions, Splitext(image_path)[1] \o PNG)

segment_image_path(image_path, network_params) ==
    LET filename == Basename(image_path)
        name     == Splitext(filename)[1]
    IN  Join(network_params.tmp_slices_predictions, name \o PNG)

(***************************************************************************)
(* Infer.segment_image: the pixels of the colorized tile.                  *)
(***************************************************************************)
\* The pixel positions (i, j) of range(img_width) x range(img_height).
Pixels(img_width, img_height) == (0..(img_width - 1)) \X (0..(img_height - 1))

\* np.argmax over the class axis: the scan keeps the first largest score;
\* scores[c + 1] is the score of class c.
RECURSIVE argmax_scan(_, _, _)
argmax_scan(scores, c, best) ==
    IF c >= Len(scores) THEN best
    ELSE IF scores[c + 1] > scores[best + 1]
         THEN argmax_scan(scores, c + 1, c)
         ELSE argmax_scan(scores, c + 1, best)

RECURSIVE argmin_scan(_, _, _)
argmin_scan(scores, c, best) ==
    IF c >= Len(scores) THEN best
    ELSE IF scores[c + 1] < scores[best + 1]
         THEN argmin_scan(scores, c + 1, c)
         ELSE argmin_scan(scores, c + 1, best)

argmax_as_argmin(scores) == argmin_scan(scores, 1, 0)

argmax(scores) == argmax_scan(scores, 1, 0)

\* (img_color[:, :, 0:img_channels] == [0, 0, 0]).all(2), for one pixel
m_black(px) == px[1] = 0 /\ px[2] = 0 /\ px[3] = 0

segment_image_pixel_unmasked(scores, classes) ==
    LET idx == argmax(scores)
    IN  <<classes[idx][1], classes[idx][2], classes[idx][3], 255>>

\* One pixel of img_color: alpha 255, the colour of the class of the largest
\* score, then (0, 0, 0, 0) where the colour is black.
segment_image_pixel(scores, classes) ==
    LET idx == argmax(scores)
        px  == <<classes[idx][1], classes[idx][2], classes[idx][3], 255>>
    IN  IF m_black(px) THEN <<0, 0, 0, 0>> ELSE px

\* img_color as written by imageio.imwrite
segment_image(prediction, network_params) ==
    [ px \in Pixels(network_params.input_size_w, network_params.input_size_h) |->
        segment_image_pixel(prediction[px], network_params.color_classes) ]

(***************************************************************************)
(* Infer.predict_deep_network                                              *)
(***************************************************************************)
VARIABLES
    load_param,            \* the configuration handed to predict_deep_network
    entries,               \* os.listdir of the input directory
    fs,                    \* the files of the scratch and output directories
    pc,                    \* position in predict_deep_network
    error,                 \* the exception that left predict_deep_network
    list_image,            \* Loader.get_list_images()
    idx,                   \* position of `item` in list_image
    src_size,              \* <<width, height>> of the raster of the file read
    dims,                  \* local dims
    is_geographic_file,    \* local is_geographic_file: "True", "False"
    list_images,           \* local list_images: the slicer's tile paths
    k,                     \* position of `path` in list_images
    prediction_path_list,  \* local prediction_path_list
    prediction_path,       \* local prediction_path (pass-through branch)
    merge_call,            \* arguments of the merge_images call of this image
    poligonize_call,       \* arguments of the poligonize call of this image
    warnings,              \* filenames named in logging.warning lines
    trace,                 \* the calls made for the current image, in order
    prev_trace,            \* the calls made for the previous image, in order
    seg                    \* the arguments and results of segment_image calls
                           \* made outside predict_deep_network

vars == <<load_param, entries, fs, pc, error, list_image, idx, src_size, dims,
          is_geographic_file, list_images, k, prediction_path_list,
          prediction_path, merge_call, poligonize_call, warnings, trace,
          prev_trace, seg>>

\* Locals of the loop body
path_val_images == load_param.image_prediction_folder

item == list_image[idx]

filename == Basename(item)

name == Splitext(filename)[1]

complete_path == Join(path_val_images, item)

Ev(op, arg) == [op |-> op, arg |-> arg]

Init ==
    /\ \E folder \in InputFolders, sz \in SliceSizes :
           \/ load_param = Params(folder, sz[1], sz[2])
           \/ load_param = Restrict(Params(folder, sz[1], sz[2]), RecognizedOptions)
    /\ entries \in SUBSET FileNames
    /\ fs = {}
    /\ pc = "start"
    /\ error = "None"
    /\ list_image = <<>>
    /\ idx = 0
    /\ src_size = None
    /\ dims = None
    /\ is_geographic_file = "None"
    /\ list_images = <<>>
    /\ k = 0
    /\ prediction_path_list = <<>>
    /\ prediction_path = None
    /\ merge_call = None
    /\ poligonize_call = None
    /\ warnings = {}
    /\ trace = <<>>
    /\ prev_trace = <<>>
    /\ seg = [pc |-> "idle"]

\* The locals of one iteration are all assigned before they are read in the
\* next one; the model forgets them at the end of the iteration.
ClearLocals ==
    /\ src_size' = None
    /\ dims' = None
    /\ is_geographic_file' = "None"
    /\ list_images' = <<>>
    /\ k' = 0
    /\ prediction_path_list' = <<>>
    /\ prediction_path' = None
    /\ merge_call' = None
    /\ poligonize_call' = None

Locals == <<src_size, dims, is_geographic_file, list_images, k,
            prediction_path_list, prediction_path, merge_call, poligonize_call>>

\* An exception leaves predict_deep_network.
Raise(e) ==
    /\ pc' = "raised"
    /\ error' = e

\* pred_images = loader.Loader(path_val_images)
Load ==
    /\ pc = "start"
    /\ list_image' = list_entries(path_val_images, entries)
    /\ idx' = 1
    /\ pc' = "loop"
    /\ UNCHANGED <<load_param, entries, fs, error, warnings, trace, prev_trace>>
    /\ UNCHANGED Locals
    /\ UNCHANGED seg

\* The for loop has no item left.
Finish ==
    /\ pc = "loop"
    /\ idx > Len(list_image)
    /\ pc' = "done"
    /\ UNCHANGED <<load_param, entries, fs, error, list_image, idx, warnings,
                   trace, prev_trace>>
    /\ UNCHANGED Locals
    /\ UNCHANGED seg

\* dims[0] > width_slice or dims[1] > height_slice
exceeds_slice(d, params) == d[1] > params.width_slice \/ d[2] > params.height_slice

is_geographic_always(flag) == TRUE

\* if is_geographic_file is True:
is_geographic(flag) == flag = "True"

cleanup_dirs_slices_only(params) == <<params.tmp_slices>>

cleanup_dirs_predictions_only(params) == <<params.tmp_slices_predictions>>

\* The two flush_files calls that end the loop body, in order.
cleanup_dirs(params) == <<params.tmp_slices, params.tmp_slices_predictions>>

output_path_in_scratch(params, stem) ==
    Join(params.tmp_slices_predictions, stem \o PNG)

\* os.path.join(load_param['output_prediction'], name + ".png")
output_path(params, stem) == Join(params.output_prediction, stem \o PNG)

append_prediction_in_front(lst, p) == <<p>> \o lst

\* prediction_path_list.append(...)
append_prediction(lst, p) == Append(lst, p)

\* dims, is_geographic_file = self.check_image_format(complete_path), the
\* warning branch and the choice of the branch.
Detect ==
    /\ pc = "loop"
    /\ idx <= Len(list_image)
    /\ \E readable \in BOOLEAN, w \in Dim, h \in Dim :
         LET r == check_image_format(complete_path, readable, w, h)
         IN  /\ trace' = Append(trace, Ev("detect", complete_path))
             /\ CASE r.kind = "raise" ->
                       /\ Raise("AttributeError")
                       /\ UNCHANGED <<warnings, src_size, dims, is_geographic_file>>
                  [] r.kind = "none" ->
                       /\ Raise("TypeError")
                       /\ UNCHANGED <<warnings, src_size, dims, is_geographic_file>>
                  [] r.kind = "pair" /\ (r.dims = None \/ r.geo = "None") ->
                       /\ warnings' = warnings \cup {filename}
                       /\ pc' = "returned"
                       /\ dims' = r.dims
                       /\ is_geographic_file' = r.geo
                       /\ UNCHANGED <<error, src_size>>
                  [] OTHER ->
                       /\ dims' = r.dims
                       /\ is_geographic_file' = r.geo
                       /\ src_size' = <<w, h>>
                       /\ pc' = IF exceeds_slice(r.dims, load_param)
                                THEN "slice" ELSE "predict_whole"
                       /\ UNCHANGED <<error, warnings>>
    /\ UNCHANGED <<load_param, entries, fs, list_image, idx, list_images, k,
                   prediction_path_list, prediction_path, merge_call,
                   poligonize_call, prev_trace>>
    /\ UNCHANGED seg

\* list_images = slicer.Slicer().slice_geographic(...) / slice_bitmap(...)
Slice ==
    /\ pc = "slice"
    /\ trace' = Append(trace, Ev("slice", complete_path))
    /\ \E ok \in BOOLEAN :
         IF ok
         THEN /\ list_images' = slice(complete_path, load_param.width_slice,
                                      load_param.height_slice,
                                      load_param.tmp_slices,
                                      src_size[1], src_size[2])
              /\ fs' = fs \cup Range(list_images')
              /\ prediction_path_list' = <<>>
              /\ k' = 1
              /\ pc' = "predict_tile"
              /\ UNCHANGED error
         ELSE /\ Raise("DecodeError")
              /\ UNCHANGED <<fs, list_images, prediction_path_list, k>>
    /\ UNCHANGED <<load_param, entries, list_image, idx, src_size, dims,
                   is_geographic_file, prediction_path, merge_call,
                   poligonize_call, warnings, prev_trace>>
    /\ UNCHANGED seg

\* One iteration of `for path in list_images`
PredictTile ==
    /\ pc = "predict_tile"
    /\ k <= Len(list_images)
    /\ LET path == list_images[k]
       IN  /\ trace' = Append(trace, Ev("predict", path))
           /\ \E ok \in BOOLEAN :
                IF ok
                THEN /\ prediction_path_list' =
                            append_prediction(prediction_path_list,
                                              segment_image_path(path, load_param))
                     /\ fs' = fs \cup {segment_image_path(path, load_param)}
                     /\ k' = k + 1
                     /\ UNCHANGED <<pc, error>>
                ELSE /\ Raise("InferenceError")
                     /\ UNCHANGED <<fs, prediction_path_list, k>>
    /\ UNCHANGED <<load_param, entries, list_image, idx, src_size, dims,
                   is_geographic_file, list_images, prediction_path,
                   merge_call, poligonize_call, warnings, prev_trace>>
    /\ UNCHANGED seg

\* slicer.Slicer().merge_images(prediction_path_list, dims[0], dims[1], ...)
Merge ==
    /\ pc = "predict_tile"
    /\ k > Len(list_images)
    /\ LET complete_path_to_merged_prediction == output_path(load_param, name)
       IN  /\ trace' = Append(trace, Ev("merge", complete_path_to_merged_prediction))
           /\ merge_call' = [ paths       |-> prediction_path_list,
                              full_width  |-> dims[1],
                              full_height |-> dims[2],
                              output_path |-> complete_path_to_merged_prediction ]
           /\ \E ok \in BOOLEAN :
                IF ok
                THEN /\ fs' = fs \cup {complete_path_to_merged_prediction}
                     /\ pc' = IF is_geographic(is_geographic_file)
                              THEN "poligonize" ELSE "flush"
                     /\ k' = 1
                     /\ UNCHANGED error
                ELSE /\ Raise("MergeError")
                     /\ UNCHANGED <<fs, k>>
    /\ UNCHANGED <<load_param, entries, list_image, idx, src_size, dims,
                   is_geographic_file, list_images, prediction_path_list,
                   prediction_path, poligonize_call, warnings, prev_trace>>
    /\ UNCHANGED seg

\* Pass-through branch: prediction = model.get_model().predict(images_array)
\* and prediction_path = self.segment_image(complete_path, ...)
PredictWhole ==
    /\ pc = "predict_whole"
    /\ trace' = Append(trace, Ev("predict", complete_path))
    /\ \E ok \in BOOLEAN :
         IF ok
         THEN /\ prediction_path' = segment_image_path(complete_path, load_param)
              /\ fs' = fs \cup {prediction_path'}
              /\ pc' = "move"
              /\ UNCHANGED error
         ELSE /\ Raise("InferenceError")
              /\ UNCHANGED <<fs, prediction_path>>
    /\ UNCHANGED <<load_param, entries, list_image, idx, src_size, dims,
                   is_geographic_file, list_images, k, prediction_path_list,
                   merge_call, poligonize_call, warnings, prev_trace>>
    /\ UNCHANGED seg

\* os.replace(prediction_path, complete_path_to_prediction)
Move ==
    /\ pc = "move"
    /\ LET complete_path_to_prediction == output_path(load_param, name)
       IN  /\ trace' = Append(trace, Ev("move", complete_path_to_prediction))
           /\ fs' = (fs \ {prediction_path}) \cup {complete_path_to_prediction}
    /\ pc' = IF is_geographic(is_geographic_file) THEN "poligonize" ELSE "flush"
    /\ k' = 1
    /\ UNCHANGED <<load_param, entries, error, list_image, idx, src_size, dims,
                   is_geographic_file, list_images, prediction_path_list,
                   prediction_path, merge_call, poligonize_call, warnings,
                   prev_trace>>
    /\ UNCHANGED seg

poligonize_classes_key_of_colors == "color_classes"

\* The key of the class map handed to poligonize: load_param['classes']
poligonize_classes_key == "classes"

\* self.poligonize(<final raster>, load_param['classes'], complete_path,
\*                 load_param['output_prediction_shp'])
\* A configuration without the key raises KeyError before the call is made.
Poligonize ==
    /\ pc = "poligonize"
    /\ IF poligonize_classes_key \notin DOMAIN load_param
       THEN /\ Raise("KeyError")
            /\ UNCHANGED <<fs, trace, poligonize_call>>
       ELSE /\ trace' = Append(trace, Ev("poligonize", complete_path))
            /\ poligonize_call' =
                  [ segmented_image_path |-> output_path(load_param, name),
                    classes              |-> load_param[poligonize_classes_key],
                    original_images_path |-> complete_path,
                    output_vector_path   |-> load_param.output_prediction_shp ]
            /\ \E ok \in BOOLEAN :
                 IF ok
                 THEN /\ fs' = fs \cup {vector_path(complete_path,
                                                    load_param.output_prediction_shp)}
                      /\ pc' = "flush"
                      /\ UNCHANGED error
                 ELSE /\ Raise("PolygonizeError")
                      /\ UNCHANGED fs
    /\ UNCHANGED <<load_param, entries, list_image, idx, src_size, dims,
                   is_geographic_file, list_images, k, prediction_path_list,
                   prediction_path, merge_call, warnings, prev_trace>>
    /\ UNCHANGED seg

\* utils.Utils().flush_files(...): the k-th sweep that ends the loop body;
\* after the last one the loop goes to the next item.
Flush ==
    /\ pc = "flush"
    /\ k <= Len(cleanup_dirs(load_param))
    /\ fs' = flush_files(fs, cleanup_dirs(load_param)[k])
    /\ IF k < Len(cleanup_dirs(load_param))
       THEN /\ k' = k + 1
            /\ trace' = Append(trace, Ev("flush", cleanup_dirs(load_param)[k]))
            /\ UNCHANGED <<pc, idx, src_size, dims, is_geographic_file,
                           list_images, prediction_path_list, prediction_path,
                           merge_call, poligonize_call, prev_trace>>
       ELSE /\ prev_trace' = Append(trace, Ev("flush", cleanup_dirs(load_param)[k]))
            /\ trace' = <<>>
            /\ idx' = idx + 1
            /\ pc' = "loop"
            /\ ClearLocals
    /\ UNCHANGED <<load_param, entries, error, list_image, warnings>>
    /\ UNCHANGED seg

Next ==
    \/ Load
    \/ Detect
    \/ Slice
    \/ PredictTile
    \/ Merge
    \/ PredictWhole
    \/ Move
    \/ Poligonize
    \/ Flush
    \/ Finish

Spec == Init /\ [][Next]_vars

(***************************************************************************)
(* Infer.segment_image called on its own: once on an image path, once more *)
(* on another path, with the same prediction and parameters.               *)
(***************************************************************************)
\* Paths of tiles and images: the same file name in two directories, a name
\* with two dots, a doubled relative directory and a name with a leading dot.
ImagePaths == { <<"/", "t", "s", "/", "a", "_", "1", ".", "t", "i", "f">>,
                <<"/", "x", "/", "a", "_", "1", ".", "t", "i", "f">>,
                <<"/", "t", "s", "/", "a", ".", "b", ".", "t", "i", "f">>,
                <<"i", "n", "/", "i", "n", "/", "a", ".", "p", "n", "g">>,
                <<"/", "t", "s", "/", ".", "d", ".", "p", "n", "g">> }

\* Colours of a class map: black and two others.
ClassColors == { <<0, 0, 0>>, <<255, 0, 0>>, <<0, 255, 255>> }

\* network_params of the calls: the configuration with its class map.
network_params == [load_param EXCEPT !.color_classes = seg.color_classes]

SegInit ==
    /\ load_param = Params(<<"/", "i", "n">>, 2, 2)
    /\ entries = {}
    /\ fs = {}
    /\ pc = "idle"
    /\ error = "None"
    /\ list_image = <<>>
    /\ idx = 0
    /\ src_size = None
    /\ dims = None
    /\ is_geographic_file = "None"
    /\ list_images = <<>>
    /\ k = 0
    /\ prediction_path_list = <<>>
    /\ prediction_path = None
    /\ merge_call = None
    /\ poligonize_call = None
    /\ warnings = {}
    /\ trace = <<>>
    /\ prev_trace = <<>>
    /\ seg \in [ pc                    : {"ready"},
                  image_path            : ImagePaths,
                  other_path            : ImagePaths,
                  prediction            : [ Pixels(InputSizeW, InputSizeH) ->
                                              [1..NumClasses -> 0..MaxProb] ],
                  color_classes         : [0..(NumClasses - 1) -> ClassColors],
                  img_color             : {None},
                  prediction_path       : {None},
                  other_prediction_path : {None} ]

SegUnchanged ==
    UNCHANGED <<load_param, entries, pc, error, list_image, idx, src_size, dims,
                is_geographic_file, list_images, k, prediction_path_list,
                prediction_path, merge_call, poligonize_call, warnings, trace,
                prev_trace>>

\* self.segment_image(image_path, prediction, network_params)
SegmentImage ==
    /\ seg.pc = "ready"
    /\ seg' = [seg EXCEPT
                 !.pc = "segmented",
                 !.img_color = segment_image(seg.prediction, network_params),
                 !.prediction_path =
                     segment_image_path(seg.image_path, network_params)]
    /\ fs' = fs \cup {seg'.prediction_path}
    /\ SegUnchanged

\* self.segment_image(other_path, prediction, network_params)
SegmentOther ==
    /\ seg.pc = "segmented"
    /\ seg' = [seg EXCEPT
                 !.pc = "done",
                 !.other_prediction_path =
                     segment_image_path(seg.other_path, network_params)]
    /\ fs' = fs \cup {seg'.other_prediction_path}
    /\ SegUnchanged

SegNext ==
    \/ SegmentImage
    \/ SegmentOther

SpecSeg == SegInit /\ [][SegNext]_vars

(***************************************************************************)
(* Vocabulary of the properties                                            *)
(***************************************************************************)
\* The files of a directory.
InDir(directory) == { p \in fs : Dirname(p) = directory }

\* Some call of the kind op was made for the current image.
Called(op) == \E i \in DOMAIN trace : trace[i].op = op

\* Some call of the kind op was made for the previous image.
CalledBefore(op) == \E i \in DOMAIN prev_trace : prev_trace[i].op = op

\* The arguments of the calls of the kind op made for the current image.
RECURSIVE ArgsOf(_, _)
ArgsOf(t, op) ==
    IF t = <<>> THEN <<>>
    ELSE IF Head(t).op = op THEN <<Head(t).arg>> \o ArgsOf(Tail(t), op)
    ELSE ArgsOf(Tail(t), op)

\* predict_deep_network was left: by the end of the loop, by the return of
\* the warning branch or by an exception.
Ended == pc \in {"done", "returned", "raised"}

\* The slicing and the prediction scratch directories hold no file.
ScratchEmpty ==
    /\ InDir(load_param.tmp_slices) = {}
    /\ InDir(load_param.tmp_slices_predictions) = {}

\* The calls of an image end with the sweep of tmp_slices then of
\* tmp_slices_predictions, and no sweep comes before.
EndsWithBothSweeps(t) ==
    /\ Len(t) >= 3
    /\ t[Len(t) - 1] = Ev("flush", load_param.tmp_slices)
    /\ t[Len(t)] = Ev("flush", load_param.tmp_slices_predictions)
    /\ \A i \in 1..(Len(t) - 2) : t[i].op # "flush"

(***************************************************************************)
(* C1: every image whose pipeline run completes, in either branch and with *)
(* or without polygonization, has both scratch directories swept after its *)
(* last pipeline step and before any step of the next image: the calls of  *)
(* a completed image end with the two sweeps, the next image starts with   *)
(* no call made and with both scratch directories empty.                   *)
(***************************************************************************)
C1_SweepAfterEachCompletedImage ==
    /\ idx > 1 => EndsWithBothSweeps(prev_trace)
    /\ (idx > 1 /\ pc = "loop") => (trace = <<>> /\ ScratchEmpty)
    /\ (idx > 1 /\ trace # <<>>) => trace[1].op = "detect"

\* A sliced image that was not polygonized has completed and was swept, and
\* the next image is being processed.
C1_Witness ==
    /\ idx > 1
    /\ CalledBefore("merge")
    /\ ~CalledBefore("poligonize")
    /\ EndsWithBothSweeps(prev_trace)
    /\ Called("detect")

(***************************************************************************)
(* C2: whenever a pipeline run that has started ends, also by a detection  *)
(* failure or a failure of inference, merge or polygonization, both        *)
(* scratch directories are empty.                                          *)
(***************************************************************************)
C2_SweepRegardlessOfOutcome ==
    (Ended /\ Called("detect")) => ScratchEmpty

(***************************************************************************)
(* C3: an image, geographic or bitmap, takes the pass-through branch       *)
(* exactly when its width <= width_slice and its height <= height_slice,   *)
(* and the slicing branch otherwise.                                       *)
(***************************************************************************)
C3_BranchFollowsTrueDimensions ==
    pc \in {"slice", "predict_whole"} =>
        (pc = "predict_whole" <=>
            (src_size[1] <= load_param.width_slice
             /\ src_size[2] <= load_param.height_slice))

(***************************************************************************)
(* C4: in the slicing branch the model is invoked once per tile in slicing *)
(* order, and the paths handed to merge are the colorized results of the   *)
(* slicer's tiles, as many and in the same order.                          *)
(***************************************************************************)
ColorizedOf(tiles) ==
    [ i \in DOMAIN tiles |->
        Join(load_param.tmp_slices_predictions,
             Splitext(Basename(tiles[i]))[1] \o PNG) ]

C4_MergeGetsTilesInSlicingOrder ==
    /\ pc = "predict_tile" =>
          /\ prediction_path_list = ColorizedOf(SubSeq(list_images, 1, k - 1))
          /\ ArgsOf(trace, "predict") = SubSeq(list_images, 1, k - 1)
    /\ Called("merge") =>
          /\ merge_call.paths = ColorizedOf(list_images)
          /\ Len(merge_call.paths) = Len(list_images)
          /\ ArgsOf(trace, "predict") = list_images

\* Merge was called for an image of four tiles.
C4_Witness ==
    /\ Called("merge")
    /\ Len(list_images) = 4
    /\ Len(merge_call.paths) = 4

(***************************************************************************)
(* C5: for every sliced image, geographic or bitmap, merge is called with  *)
(* full_width = the image's width and full_height = the image's height.    *)
(***************************************************************************)
C5_MergeGetsFullSize ==
    Called("merge") =>
        /\ merge_call.full_width = src_size[1]
        /\ merge_call.full_height = src_size[2]

(***************************************************************************)
(* C6: a file of the input directory whose extension is in neither         *)
(* accepted set is named in a warning by the time predict_deep_network     *)
(* has run through, and the model is never invoked on it.                  *)
(***************************************************************************)
Unsupported(fname) ==
    /\ ~EndsWithAny(fname, GEOGRAPHIC_ACCEPT_EXTENSION)
    /\ ~EndsWithAny(fname, NON_GEOGRAPHIC_ACCEPT_EXTENSION)

C6_UnsupportedFileIsWarnedAbout ==
    \A fname \in entries :
        Unsupported(fname) =>
            /\ pc = "done" => fname \in warnings
            /\ \A i \in DOMAIN trace :
                   trace[i].op = "predict" => Basename(trace[i].arg) # fname

(***************************************************************************)
(* C7: once Detect fails for an image, a warning naming it is logged, no   *)
(* further call is made for it, and no step is taken for any later image.  *)
(***************************************************************************)
DetectFailed ==
    /\ pc \in {"returned", "raised"}
    /\ Len(trace) = 1
    /\ trace[1].op = "detect"

C7_DetectFailureWarnsAndAborts ==
    DetectFailed =>
        /\ filename \in warnings
        /\ ~ENABLED Next

(***************************************************************************)
(* C8: check_image_format yields a pair for every path, so an unreadable   *)
(* source never ends predict_deep_network by an error raised where the     *)
(* pair is unpacked or inside check_image_format.                          *)
(***************************************************************************)
C8_DetectAlwaysYieldsPair ==
    ~(pc = "raised" /\ error \in {"TypeError", "AttributeError"})

(***************************************************************************)
(* C9: in the pass-through branch neither the slicer nor merge is called,  *)
(* no file is created in tmp_slices, and once the result is moved the      *)
(* model has been invoked exactly once, on the image, and the colorized    *)
(* file has left tmp_slices_predictions for output_prediction/<stem>.png.  *)
(***************************************************************************)
InPassThrough == pc \in {"predict_whole", "move"} \/ Called("move")

C9_PassThroughMovesSingleResult ==
    InPassThrough =>
        /\ ~Called("slice")
        /\ ~Called("merge")
        /\ InDir(load_param.tmp_slices) = {}
        /\ Called("move") =>
              /\ ArgsOf(trace, "predict") = <<complete_path>>
              /\ Dirname(prediction_path) = load_param.tmp_slices_predictions
              /\ prediction_path \notin fs
              /\ Join(load_param.output_prediction, name \o PNG) \in fs
              /\ ArgsOf(trace, "move")
                    = <<Join(load_param.output_prediction, name \o PNG)>>

\* The result of a pass-through image has been moved to the output.
C9_Witness ==
    /\ pc \in {"poligonize", "flush"}
    /\ Called("move")
    /\ prediction_path \notin fs
    /\ Join(load_param.output_prediction, name \o PNG) \in fs

(***************************************************************************)
(* C10: in both branches polygonize is called for an image exactly when    *)
(* Detect classified it as geographic; for a non-geographic image it is    *)
(* skipped and the run goes on to the cleanup.                             *)
(***************************************************************************)
C10_PolygonizeOnlyGeographic ==
    /\ Called("poligonize") => is_geographic_file = "True"
    /\ pc = "flush" => (Called("poligonize") <=> is_geographic_file = "True")
    /\ (is_geographic_file = "False" /\ (Called("merge") \/ Called("move"))
            /\ pc # "raised") => pc = "flush"
    /\ idx > 1 =>
          (CalledBefore("poligonize") <=>
              EndsWithAny(Basename(prev_trace[1].arg), GEOGRAPHIC_ACCEPT_EXTENSION))

\* A geographic image was sliced, merged and polygonized, and the next image,
\* a bitmap, went through the pass-through branch to the cleanup.
C10_Witness ==
    /\ idx > 1
    /\ CalledBefore("merge")
    /\ CalledBefore("poligonize")
    /\ pc = "flush"
    /\ Called("move")
    /\ is_geographic_file = "False"
    /\ ~Called("poligonize")

(***************************************************************************)
(* C13: Loader.list_entries returns exactly the entries of the directory   *)
(* whose name ends with an accepted extension and does not start with a    *)
(* dot, each joined to the directory, in ascending lexicographic order,    *)
(* and the images are processed in that order.                             *)
(***************************************************************************)
C13_LoaderListsAcceptedSorted ==
    pc # "start" =>
        /\ Range(list_image) =
              { Join(load_param.image_prediction_folder, fname) :
                  fname \in { f \in entries :
                                 /\ \/ EndsWithAny(f, GEOGRAPHIC_ACCEPT_EXTENSION)
                                    \/ EndsWithAny(f, NON_GEOGRAPHIC_ACCEPT_EXTENSION)
                                 /\ f[1] # "." } }
        /\ \A i, j \in DOMAIN list_image :
              i < j => LexLess(list_image[i], list_image[j])
        /\ trace # <<>> =>
              trace[1] = Ev("detect", Join(load_param.image_prediction_folder,
                                           list_image[idx]))
        /\ idx > 1 =>
              prev_trace[1] = Ev("detect", Join(load_param.image_prediction_folder,
                                                list_image[idx - 1]))

\* A directory with a hidden file, a text file and three images: the second
\* image is being processed after the first.
C13_Witness ==
    /\ entries = FileNames
    /\ Len(list_image) = 3
    /\ idx = 2
    /\ Called("detect")
    /\ CalledBefore("detect")

(***************************************************************************)
(* C14: whenever an image's pipeline run fails at any step, nothing of     *)
(* that run has been written to output_prediction or                       *)
(* output_prediction_shp.                                                  *)
(***************************************************************************)
WroteRaster ==
    \/ Called("move")
    \/ Called("merge") /\ error # "MergeError"

WroteVector == Called("poligonize") /\ error # "PolygonizeError"

C14_NoOutputOfFailedRun ==
    (pc = "raised" /\ Called("detect")) => (~WroteRaster /\ ~WroteVector)

(***************************************************************************)
(* C16: the scratch directories start empty, and whenever an image's run   *)
(* begins both are empty; every file of a scratch directory is a tile or   *)
(* a colorized tile of the image being processed.                          *)
(***************************************************************************)
C16_ScratchHoldsCurrentImageOnly ==
    /\ pc \in {"start", "loop"} => ScratchEmpty
    /\ InDir(load_param.tmp_slices) \subseteq Range(list_images)
    /\ InDir(load_param.tmp_slices_predictions) \subseteq
          (Range(prediction_path_list)
             \cup (IF prediction_path = None THEN {} ELSE {prediction_path}))

\* The second image is being predicted tile by tile after a first image
\* that was sliced too.
C16_Witness ==
    /\ idx > 1
    /\ CalledBefore("slice")
    /\ pc = "predict_tile"
    /\ k > 1
    /\ InDir(load_param.tmp_slices) # {}
    /\ InDir(load_param.tmp_slices_predictions) # {}

(***************************************************************************)
(* C18: two different files returned by the loader get two different final *)
(* raster paths output_prediction/<stem>.png.                              *)
(***************************************************************************)
C18_DistinctImagesDistinctOutputs ==
    \A i, j \in DOMAIN list_image :
        i # j =>
            Join(load_param.output_prediction,
                 Splitext(Basename(list_image[i]))[1] \o PNG)
          # Join(load_param.output_prediction,
                 Splitext(Basename(list_image[j]))[1] \o PNG)

(***************************************************************************)
(* C19: for an absolute or a relative input directory, the path handed to  *)
(* Detect and the later steps is the entry the loader returned.            *)
(***************************************************************************)
C19_CompletePathIsLoaderEntry ==
    Called("detect") => trace[1].arg = list_image[idx]

Segmented == seg.pc \in {"segmented", "done"}

C11_BlackIffTransparent ==
    Segmented =>
        \A px \in DOMAIN seg.img_color :
            /\ seg.img_color[px][4] = 0 <=>
                  (seg.img_color[px][1] = 0 /\ seg.img_color[px][2] = 0
                     /\ seg.img_color[px][3] = 0)
            /\ seg.img_color[px][4] # 0 => seg.img_color[px][4] = 255

\* A tile with a black, transparent pixel and a coloured, opaque one.
C11_Witness ==
    /\ Segmented
    /\ \E px \in DOMAIN seg.img_color : seg.img_color[px] = <<0, 0, 0, 0>>
    /\ \E px \in DOMAIN seg.img_color : seg.img_color[px] = <<255, 0, 0, 255>>

(***************************************************************************)
(* C12: every pixel of the colorized tile has the colour color_classes[k]  *)
(* of a class k whose score at that pixel is the largest.                  *)
(***************************************************************************)
C12_PixelHasColourOfLargestScore ==
    Segmented =>
        \A px \in DOMAIN seg.img_color :
            \E c \in DOMAIN seg.color_classes :
                /\ \A d \in DOMAIN seg.color_classes :
                       seg.prediction[px][d + 1] <= seg.prediction[px][c + 1]
                /\ SubSeq(seg.img_color[px], 1, 3) = seg.color_classes[c]

\* A pixel where class 1 has the strictly largest score and another colour
\* than class 0.
C12_Witness ==
    /\ Segmented
    /\ seg.color_classes[0] # seg.color_classes[1]
    /\ \E px \in DOMAIN seg.img_color :
          /\ seg.prediction[px][2] > seg.prediction[px][1]
          /\ SubSeq(seg.img_color[px], 1, 3) = seg.color_classes[1]

(***************************************************************************)
(* C15: segment_image writes the colorized tile to                         *)
(* tmp_slices_predictions/<file name of the tile without its extension>.png*)
(* : the path lies inside the prediction scratch directory and two calls   *)
(* on paths with the same file name write to the same path.                *)
(***************************************************************************)
C15_PredictionPathFromFileName ==
    /\ Segmented =>
          /\ seg.prediction_path =
                load_param.tmp_slices_predictions \o <<"/">>
                   \o Splitext(Basename(seg.image_path))[1] \o PNG
          /\ Dirname(seg.prediction_path) = load_param.tmp_slices_predictions
          /\ seg.prediction_path \in fs
    /\ seg.pc = "done" =>
          /\ Dirname(seg.other_prediction_path) = load_param.tmp_slices_predictions
          /\ Basename(seg.image_path) = Basename(seg.other_path) =>
                seg.other_prediction_path = seg.prediction_path

\* Two calls on the same file name in two directories.
C15_Witness ==
    /\ seg.pc = "done"
    /\ seg.image_path # seg.other_path
    /\ Basename(seg.image_path) = Basename(seg.other_path)
    /\ seg.other_prediction_path = seg.prediction_path

====
